---- MODULE Spec2Model ----
(***************************************************************************)
(* chatty: parse_request (src/http.rs).                                    *)
(*                                                                         *)
(* A request is a sequence of characters (one-character strings).  All     *)
(* characters of the model are ASCII, so a byte index of the Rust code is  *)
(* a character index of the model; indexes are 0-based as in the code.     *)
(* The function is modelled statement by statement: pc is the statement    *)
(* about to be executed.                                                   *)
(***************************************************************************)
EXTENDS Integers, Sequences, FiniteSets, TLC

VARIABLES form, request, pc, request_line, parts, method, body,
          body_start, body_end, uri, http_version, result

vars == <<form, request, pc, request_line, parts, method, body,
          body_start, body_end, uri, http_version, result>>

-----------------------------------------------------------------------------
(* Characters and literals of the code                                     *)

CR == "\r"
LF == "\n"
SP == " "
HT == "\t"
CRLF == <<CR, LF>>

GET == <<"G", "E", "T">>
HEAD == <<"H", "E", "A", "D">>
DELETE == <<"D", "E", "L", "E", "T", "E">>
CONNECT == <<"C", "O", "N", "N", "E", "C", "T">>
OPTIONS == <<"O", "P", "T", "I", "O", "N", "S">>
TRACE == <<"T", "R", "A", "C", "E">>
POST == <<"P", "O", "S", "T">>
PUT == <<"P", "U", "T">>
PATCH == <<"P", "A", "T", "C", "H">>
HTTP11 == <<"H", "T", "T", "P", "/", "1", ".", "1">>

\* the error messages of the code, under the names of the error kinds
MissingMethod == "Method not specified!"
MalformedRequest == "Bad request!"
UnsupportedMethod == "Unsupported method!"
MissingTarget == "URI not specified"
MissingVersion == "HTTP version not specified"
UnsupportedVersion == "Only HTTP/1.1 is supported!"

\* Option<T>: None is the empty sequence, Some(x) the one-element sequence
None == <<>>
Some(x) == <<x>>

-----------------------------------------------------------------------------
(* The library functions parse_request calls                               *)

\* char::is_whitespace, on the characters of the model
is_space(c) == c = SP
is_whitespace(c) == c \in {SP, HT, LF, CR}

\* the 0-based indexes at which pat occurs in s
Occurrences(s, pat) ==
    {i \in 0 .. (Len(s) - Len(pat)) : SubSeq(s, i + 1, i + Len(pat)) = pat}

Min(S) == CHOOSE i \in S : \A j \in S : i <= j
Max(S) == CHOOSE i \in S : \A j \in S : i >= j

\* str::find: Some(index of the first occurrence) or None
find(s, pat) ==
    IF Occurrences(s, pat) = {} THEN None ELSE Some(Min(Occurrences(s, pat)))

\* str::rfind: Some(index of the last occurrence) or None
rfind(s, pat) ==
    IF Occurrences(s, pat) = {} THEN None ELSE Some(Max(Occurrences(s, pat)))

\* str::ends_with
ends_with(s, pat) ==
    /\ Len(s) >= Len(pat)
    /\ SubSeq(s, Len(s) - Len(pat) + 1, Len(s)) = pat

\* &s[a .. b]
slice(s, a, b) == SubSeq(s, a + 1, b)

\* str::lines().last()
lines_last(s) ==
    IF s = <<>> THEN None
    ELSE LET u == IF ends_with(s, <<LF>>) THEN slice(s, 0, Len(s) - 1) ELSE s
             t == IF ends_with(s, CRLF) THEN slice(s, 0, Len(s) - 2) ELSE u
         IN  IF rfind(t, <<LF>>) = None THEN Some(t)
             ELSE Some(slice(t, rfind(t, <<LF>>)[1] + 1, Len(t)))

\* str::lines().next(): None for the empty string; otherwise the text before
\* the first "\n", without that "\n" and without one "\r" before it
lines_next(s) ==
    IF s = <<>> THEN None
    ELSE IF find(s, <<LF>>) = None THEN Some(s)
    ELSE LET l == slice(s, 0, find(s, <<LF>>)[1])
         IN  IF ends_with(l, <<CR>>) THEN Some(slice(l, 0, Len(l) - 1))
             ELSE Some(l)

\* str::split_whitespace(), collected: the maximal runs of non-whitespace
RECURSIVE split_whitespace(_)
split_whitespace(s) ==
    IF s = <<>> THEN <<>>
    ELSE IF is_whitespace(s[1]) THEN split_whitespace(Tail(s))
    ELSE LET stops == {i \in 1 .. Len(s) : is_whitespace(s[i])}
             n == IF stops = {} THEN Len(s) ELSE Min(stops) - 1
         IN  <<SubSeq(s, 1, n)>> \o split_whitespace(SubSeq(s, n + 1, Len(s)))

\* Path::new: a Path wraps the text it is made from, unchanged
Path_newTrimmed(s) ==
    [inner |-> IF Len(s) > 1 /\ s[Len(s)] = "/" THEN SubSeq(s, 1, Len(s) - 1)
               ELSE s]
Path_new(s) == [inner |-> s]

-----------------------------------------------------------------------------
(* The decisions of parse_request                                          *)

\* line 43
NoBodyMethodsNoTrace == {GET, HEAD, DELETE, CONNECT, OPTIONS}
NoBodyMethodsAnyCase ==
    {GET, HEAD, DELETE, CONNECT, OPTIONS, TRACE, <<"g", "e", "t">>}
NoBodyMethods == {GET, HEAD, DELETE, CONNECT, OPTIONS, TRACE}

\* line 45
BodyMethods == {POST, PUT, PATCH}

\* line 36
MissingTrailerLF(s) == ends_with(s, <<LF>>) = FALSE
MissingTrailer(s) == ends_with(s, CRLF) = FALSE

\* line 48: the pattern searched for the start of the body
StartPatternLF == <<LF>>
StartPattern == CRLF

\* line 50
StartAfterNoSkip(i) == i
StartAfter(i) == i + 2

\* line 59
EmptyBodyStrict(s, e) == s > e
EmptyBody(s, e) == s >= e

\* line 71: parts.next() of a non-empty iterator
VersionTokenLast(ps) == ps[Len(ps)]
VersionToken(ps) == Head(ps)

\* line 74
VersionRejectedPrefix(v) ==
    Len(v) < Len(HTTP11) \/ SubSeq(v, 1, Len(HTTP11)) # HTTP11
VersionRejectedMajor(v) ==
    Len(v) # Len(HTTP11) \/ SubSeq(v, 1, 6) # SubSeq(HTTP11, 1, 6)
VersionRejected(v) == v # HTTP11

-----------------------------------------------------------------------------
(* The inputs                                                              *)

MaxHeaders == 1
MaxBodyLen == 1

FOO == <<"F", "O", "O">>
get == <<"g", "e", "t">>
HTTP10 == <<"H", "T", "T", "P", "/", "1", ".", "0">>
Root == <<"/">>
SomePath == <<"/", "a", "/">>
HeaderLine == <<"H", ":", "v">>
Extra == <<"x">>
BodyChars == {"x", CR}

\* <<>> stands for a token that is left out
NoBodyTokens == {GET, HEAD, DELETE, CONNECT, OPTIONS, TRACE}
BodyTokens == {POST, PUT, PATCH}
AcceptedTokens == NoBodyTokens \cup BodyTokens
MethodTokens == AcceptedTokens \cup {FOO, get, <<>>}
TargetTokens == {Root, SomePath, <<>>}
VersionTokens == {HTTP11, HTTP10, <<>>}
ExtraTokens == {<<>>, <<Extra>>}
LineEnds == {CRLF, <<LF>>, <<>>}
Trailers == {CRLF, <<>>}

SeqsUpTo(S, n) == UNION {[1 .. k -> S] : k \in 0 .. n}

RECURSIVE Concat(_)
Concat(ss) == IF ss = <<>> THEN <<>> ELSE Head(ss) \o Concat(Tail(ss))

\* the tokens that are present, separated by one space
RECURSIVE Join(_)
Join(ts) ==
    IF ts = <<>> THEN <<>>
    ELSE IF Head(ts) = <<>> THEN Join(Tail(ts))
    ELSE IF Join(Tail(ts)) = <<>> THEN Head(ts)
    ELSE Head(ts) \o <<SP>> \o Join(Tail(ts))

RequestLineOf(f) ==
    f.lead \o Join(<<f.method, f.target, f.version>> \o f.extra)

\* the header lines: f.headers is the sequence of their terminators; after a
\* request line without terminator the first one is glued to the version, as
\* in "HTTP/1.1Host: www.example.com"
HeadersOf(f) == Concat([i \in 1 .. Len(f.headers) |-> HeaderLine \o f.headers[i]])

Build(f) ==
    RequestLineOf(f) \o f.eol \o HeadersOf(f) \o f.blank \o f.body \o f.trailer

Forms ==
    [lead : {<<>>}, method : MethodTokens, target : TargetTokens,
     version : VersionTokens, extra : ExtraTokens, eol : LineEnds,
     headers : SeqsUpTo({CRLF, <<LF>>}, MaxHeaders), blank : {<<>>, CRLF},
     body : SeqsUpTo(BodyChars, MaxBodyLen), trailer : Trailers]

\* the requests of the scenarios of the specification and of the tests
Messages == <<"/", "m", "e", "s", "s", "a", "g", "e", "s">>
Id1 == <<"{", "i", "d", ":", SP, "1", "}">>

Scenarios ==
    {[lead |-> <<>>, method |-> POST, target |-> Messages, version |-> HTTP11,
      extra |-> <<>>, eol |-> CRLF, headers |-> <<>>, blank |-> CRLF,
      body |-> Id1, trailer |-> CRLF],
     [lead |-> <<>>, method |-> POST, target |-> Messages, version |-> HTTP11,
      extra |-> <<>>, eol |-> CRLF, headers |-> <<>>, blank |-> <<>>,
      body |-> Id1, trailer |-> CRLF],
     [lead |-> <<SP, SP, SP>>, method |-> <<>>, target |-> <<>>, version |-> <<>>,
      extra |-> <<>>, eol |-> CRLF, headers |-> <<>>, blank |-> <<>>,
      body |-> <<>>, trailer |-> <<>>],
     [lead |-> <<>>, method |-> POST, target |-> Root, version |-> HTTP11,
      extra |-> <<>>, eol |-> <<LF>>, headers |-> <<(<<LF>>)>>, blank |-> <<>>,
      body |-> <<"x", CR, LF, "x">>, trailer |-> CRLF]}

-----------------------------------------------------------------------------
(* parse_request                                                           *)

NoResult ==
    [kind |-> "none", msg |-> "", http_method |-> <<>>, uri |-> Path_new(<<>>),
     http_version |-> <<>>, body |-> None]

Err(m) == [NoResult EXCEPT !.kind = "Err", !.msg = m]
Panic == [NoResult EXCEPT !.kind = "Panic"]

Init ==
    /\ form \in Forms \cup Scenarios
    /\ request = Build(form)
    /\ pc = "request_line"
    /\ request_line = <<>>
    /\ parts = <<>>
    /\ method = <<>>
    /\ body = None
    /\ body_start = 0
    /\ body_end = 0
    /\ uri = Path_new(<<>>)
    /\ http_version = <<>>
    /\ result = NoResult

\* line 31: request.lines().next().unwrap()
RequestLine ==
    /\ pc = "request_line"
    /\ IF lines_next(request) = None
       THEN /\ pc' = "done"
            /\ result' = Panic
            /\ UNCHANGED request_line
       ELSE /\ pc' = "method"
            /\ request_line' = lines_next(request)[1]
            /\ UNCHANGED result
    /\ UNCHANGED <<form, request, parts, method, body, body_start, body_end,
                   uri, http_version>>

\* lines 32-34: split_whitespace(), parts.next().ok_or(..)?, body = None
Method ==
    /\ pc = "method"
    /\ IF split_whitespace(request_line) = <<>>
       THEN /\ pc' = "done"
            /\ result' = Err(MissingMethod)
            /\ UNCHANGED <<parts, method>>
       ELSE /\ pc' = "trailer"
            /\ method' = Head(split_whitespace(request_line))
            /\ parts' = Tail(split_whitespace(request_line))
            /\ UNCHANGED result
    /\ body' = None
    /\ UNCHANGED <<form, request, request_line, body_start, body_end, uri,
                   http_version>>

\* lines 36-39
Trailer ==
    /\ pc = "trailer"
    /\ IF MissingTrailer(request)
       THEN pc' = "done" /\ result' = Err(MalformedRequest)
       ELSE pc' = "match" /\ UNCHANGED result
    /\ UNCHANGED <<form, request, request_line, parts, method, body,
                   body_start, body_end, uri, http_version>>

\* lines 41-45, 67: the arms of the match
Match ==
    /\ pc = "match"
    /\ IF method \in NoBodyMethods THEN pc' = "uri" /\ UNCHANGED result
       ELSE IF method \in BodyMethods THEN pc' = "body_start" /\ UNCHANGED result
       ELSE pc' = "done" /\ result' = Err(UnsupportedMethod)
    /\ UNCHANGED <<form, request, request_line, parts, method, body,
                   body_start, body_end, uri, http_version>>

\* lines 48-52
BodyStart ==
    /\ pc = "body_start"
    /\ IF find(request, StartPattern) = None
       THEN pc' = "done" /\ result' = Err(MalformedRequest) /\ UNCHANGED body_start
       ELSE /\ pc' = "body_end"
            /\ body_start' = StartAfter(find(request, StartPattern)[1])
            /\ UNCHANGED result
    /\ UNCHANGED <<form, request, request_line, parts, method, body, body_end,
                   uri, http_version>>

\* lines 53-57
BodyEnd ==
    /\ pc = "body_end"
    /\ IF rfind(request, CRLF) = None
       THEN pc' = "done" /\ result' = Err(MalformedRequest) /\ UNCHANGED body_end
       ELSE /\ pc' = "body_bounds"
            /\ body_end' = rfind(request, CRLF)[1]
            /\ UNCHANGED result
    /\ UNCHANGED <<form, request, request_line, parts, method, body, body_start,
                   uri, http_version>>

\* lines 59-64
BodySlice ==
    /\ pc = "body_bounds"
    /\ IF EmptyBody(body_start, body_end)
       THEN pc' = "done" /\ result' = Err(MalformedRequest) /\ UNCHANGED body
       ELSE /\ pc' = "uri"
            /\ body' = Some(slice(request, body_start, body_end))
            /\ UNCHANGED result
    /\ UNCHANGED <<form, request, request_line, parts, method, body_start,
                   body_end, uri, http_version>>

\* line 70
Uri ==
    /\ pc = "uri"
    /\ IF parts = <<>>
       THEN pc' = "done" /\ result' = Err(MissingTarget) /\ UNCHANGED <<parts, uri>>
       ELSE /\ pc' = "http_version"
            /\ uri' = Path_new(Head(parts))
            /\ parts' = Tail(parts)
            /\ UNCHANGED result
    /\ UNCHANGED <<form, request, request_line, method, body, body_start,
                   body_end, http_version>>

\* line 71
HttpVersion ==
    /\ pc = "http_version"
    /\ IF parts = <<>>
       THEN /\ pc' = "done"
            /\ result' = Err(MissingVersion)
            /\ UNCHANGED <<parts, http_version>>
       ELSE /\ pc' = "check_version"
            /\ http_version' = VersionToken(parts)
            /\ parts' = Tail(parts)
            /\ UNCHANGED result
    /\ UNCHANGED <<form, request, request_line, method, body, body_start,
                   body_end, uri>>

\* lines 74-87
Return ==
    /\ pc = "check_version"
    /\ pc' = "done"
    /\ IF VersionRejected(http_version)
       THEN result' = Err(UnsupportedVersion)
       ELSE result' = [kind |-> "Ok", msg |-> "", http_method |-> method,
                       uri |-> uri, http_version |-> http_version,
                       body |-> body]
    /\ UNCHANGED <<form, request, request_line, parts, method, body,
                   body_start, body_end, uri, http_version>>

Next ==
    \/ RequestLine
    \/ Method
    \/ Trailer
    \/ Match
    \/ BodyStart
    \/ BodyEnd
    \/ BodySlice
    \/ Uri
    \/ HttpVersion
    \/ Return

Spec == Init /\ [][Next]_vars

TypeOK ==
    /\ pc \in {"request_line", "method", "trailer", "match", "body_start",
               "body_end", "body_bounds", "uri", "http_version",
               "check_version", "done"}
    /\ result.kind \in {"none", "Ok", "Err", "Panic"}
    /\ (pc = "done") = (result.kind # "none")

-----------------------------------------------------------------------------
(* Properties                                                              *)

Done == pc = "done"
Ok(m, t, v, b) ==
    [kind |-> "Ok", msg |-> "", http_method |-> m, uri |-> Path_new(t),
     http_version |-> v, body |-> b]

\* the tokens of the first line of the request (none for the empty request)
Tokens ==
    IF lines_next(request) = None THEN <<>>
    ELSE split_whitespace(lines_next(request)[1])

\* "M t HTTP/1.1\r\n"
PlainRequest(M, t) == M \o <<SP>> \o t \o <<SP>> \o HTTP11 \o CRLF

\* C1: for every no-body method M and target token t, the request
\* "M t HTTP/1.1\r\n" parses to method M, target t, version HTTP/1.1 and no
\* body.
C1_NoBodyRequestParses ==
    \A M \in NoBodyTokens, t \in TargetTokens \ {<<>>} :
        (Done /\ request = PlainRequest(M, t)) => result = Ok(M, t, HTTP11, None)

C1_Witness ==
    /\ Done
    /\ request = PlainRequest(TRACE, SomePath)
    /\ result.kind = "Ok"

\* the text between the request line and the closing CRLF of the request
Middle == HeadersOf(form) \o form.blank \o form.body

\* the request is "M t HTTP/1.1\r\n<middle>\r\n" for a body-bearing M
BodyRequestForm ==
    /\ form.method \in BodyTokens
    /\ form.target # <<>>
    /\ request = PlainRequest(form.method, form.target) \o Middle \o CRLF

\* C2: for every body-bearing method M, a request "M t HTTP/1.1\r\n<middle>\r\n"
\* with a non-empty middle parses, and its body is the middle, verbatim,
\* header lines included.
C2_BodyIsTextBetweenFirstAndLastCRLF ==
    (Done /\ BodyRequestForm /\ Middle # <<>>) =>
        result = Ok(form.method, form.target, HTTP11, Some(Middle))

C2_Witness ==
    /\ Done
    /\ BodyRequestForm
    /\ form.headers = <<CRLF>>
    /\ form.body = <<"x">>
    /\ result.kind = "Ok"
    /\ result.body = Some(HeaderLine \o CRLF \o form.blank \o <<"x">>)

\* "POST /messages HTTP/1.1\r\n\r\n{id: 1}\r\n"
BlankLineRequest == PlainRequest(POST, Messages) \o CRLF \o Id1 \o CRLF

\* C3 (as stated): "POST /messages HTTP/1.1\r\n\r\n{id: 1}\r\n" parses with the
\* body "{id: 1}", without the CRLF of the empty line.
C3_Original ==
    (Done /\ request = BlankLineRequest) =>
        (result.kind = "Ok" /\ result.body = Some(Id1))

\* C3 (amended): "POST /messages HTTP/1.1\r\n\r\n{id: 1}\r\n" parses with the
\* body "\r\n{id: 1}" (9 characters): the CRLF of the empty line is part of
\* the body.
C3_BodyKeepsBlankLine ==
    (Done /\ request = BlankLineRequest) =>
        result = Ok(POST, Messages, HTTP11, Some(CRLF \o Id1))

C3_Witness ==
    /\ Done
    /\ request = BlankLineRequest
    /\ result.kind = "Ok"
    /\ Len(result.body[1]) = 9

\* C4: parse_request returns for every input, the empty string included; it
\* never panics.
C4_NeverPanics == result.kind # "Panic"

\* the first token of the request line is present and not an accepted method
UnknownMethod == Tokens # <<>> /\ Tokens[1] \notin AcceptedTokens

\* C5 (as stated): when the first token of the request line is not one of the
\* nine accepted methods, parsing fails with UnsupportedMethod, whatever the
\* rest of the input.
C5_Original == (Done /\ UnknownMethod) => result = Err(UnsupportedMethod)

\* C5 (amended): when the input ends with CRLF and the first token of the
\* request line is not one of the nine accepted methods, parsing fails with
\* UnsupportedMethod.
C5_UnknownMethodRejected ==
    (Done /\ UnknownMethod /\ ends_with(request, CRLF)) =>
        result = Err(UnsupportedMethod)

C5_Witness ==
    /\ Done
    /\ Tokens # <<>>
    /\ Tokens[1] = get
    /\ ends_with(request, CRLF)
    /\ result = Err(UnsupportedMethod)

\* the body boundaries of the request are valid: there is a CRLF and the index
\* after the first one is before the index of the last one
ValidBoundaries ==
    /\ Occurrences(request, CRLF) # {}
    /\ Min(Occurrences(request, CRLF)) + 2 < Max(Occurrences(request, CRLF))

\* an accepted method, valid boundaries for a body method, and a third token
\* that is not HTTP/1.1
OtherVersion ==
    /\ Len(Tokens) >= 3
    /\ Tokens[1] \in AcceptedTokens
    /\ Tokens[1] \in BodyTokens => ValidBoundaries
    /\ Tokens[3] # HTTP11

\* C6 (as stated): with an accepted method, valid body boundaries and a second
\* and third token, parsing fails with UnsupportedVersion when the third token
\* is not exactly HTTP/1.1.
C6_Original == (Done /\ OtherVersion) => result = Err(UnsupportedVersion)

\* C6 (amended): the same, for an input that ends with CRLF.
C6_OtherVersionRejected ==
    (Done /\ OtherVersion /\ ends_with(request, CRLF)) =>
        result = Err(UnsupportedVersion)

C6_Witness ==
    /\ Done
    /\ OtherVersion
    /\ ends_with(request, CRLF)
    /\ Tokens[1] = PUT
    /\ Tokens[3] = HTTP11 \o HeaderLine
    /\ result = Err(UnsupportedVersion)

\* C7: on success the body is None exactly for the no-body methods, and for
\* POST, PUT and PATCH it is Some of a non-empty text.
C7_BodyMatchesMethod ==
    (Done /\ result.kind = "Ok") =>
        /\ (result.body = None) = (result.http_method \in NoBodyTokens)
        /\ result.http_method \in BodyTokens =>
               (result.body # None /\ Len(result.body[1]) >= 1)

C7_Witness ==
    /\ Done
    /\ result.kind = "Ok"
    /\ result.http_method = PATCH
    /\ result.body = Some(<<"x">>)

\* C8: on success the method is one of the nine accepted methods and the
\* version is exactly HTTP/1.1.
C8_AcceptedMethodAndVersion ==
    (Done /\ result.kind = "Ok") =>
        /\ result.http_method \in AcceptedTokens
        /\ result.http_version = HTTP11

C8_Witness ==
    /\ Done
    /\ result.kind = "Ok"
    /\ result.http_method = DELETE
    /\ result.http_version = HTTP11
    /\ Len(Tokens) = 4

\* the request has no CRLF, or the index after the first one is not before the
\* index of the last one
NoRoomForBody ==
    \/ Occurrences(request, CRLF) = {}
    \/ Min(Occurrences(request, CRLF)) + 2 >= Max(Occurrences(request, CRLF))

\* C9: for a body-bearing method, parsing fails with MalformedRequest when the
\* request has no CRLF or start >= end: a single CRLF, or two adjacent ones.
C9_NoRoomForBodyRejected ==
    (Done /\ Tokens # <<>> /\ Tokens[1] \in BodyTokens /\ NoRoomForBody) =>
        result = Err(MalformedRequest)

\* the first and the last CRLF are adjacent and the request line is complete
C9_Witness ==
    /\ Done
    /\ request = PlainRequest(POST, Root) \o CRLF
    /\ result = Err(MalformedRequest)

\* a body-bearing request with header lines, a body and no blank line between
\* them
HeadersRunIntoBody ==
    /\ form.method \in BodyTokens
    /\ form.eol # <<>>
    /\ form.headers # <<>>
    /\ form.blank = <<>>
    /\ form.body # <<>>

\* C10 (as stated): a body-bearing request with header lines and no blank line
\* before the body fails with MalformedRequest, whether the lines end with LF
\* or with CRLF.
C10_Original == (Done /\ HeadersRunIntoBody) => result = Err(MalformedRequest)

\* C10 (amended): such a request fails with MalformedRequest when the request
\* line and the header lines end with a bare LF and the body holds no CRLF, so
\* that no CRLF comes before the closing one.
C10_HeadersRunIntoBodyRejected ==
    (/\ Done
     /\ HeadersRunIntoBody
     /\ form.eol = <<LF>>
     /\ \A i \in 1 .. Len(form.headers) : form.headers[i] = <<LF>>
     /\ Occurrences(form.body, CRLF) = {}) =>
        result = Err(MalformedRequest)

C10_Witness ==
    /\ Done
    /\ request = POST \o <<SP>> \o Root \o <<SP>> \o HTTP11 \o <<LF>>
                     \o HeaderLine \o <<LF, "x">> \o CRLF
    /\ form.headers = <<(<<LF>>)>>
    /\ result = Err(MalformedRequest)

\* an accepted method and, for a body method, valid body boundaries
MethodAndBoundariesPass ==
    /\ Tokens # <<>>
    /\ Tokens[1] \in AcceptedTokens
    /\ Tokens[1] \in BodyTokens => ValidBoundaries

\* a one-token request line gives MissingTarget, a two-token one MissingVersion
TooFewTokensRejected ==
    /\ Len(Tokens) = 1 => result = Err(MissingTarget)
    /\ Len(Tokens) = 2 => result = Err(MissingVersion)

\* C11 (as stated): with an accepted method and valid body boundaries, a
\* request line of one token fails with MissingTarget and one of two tokens
\* with MissingVersion: the second token is always taken as the target.
C11_Original == (Done /\ MethodAndBoundariesPass) => TooFewTokensRejected

\* C11 (amended): the same, for an input that ends with CRLF.
C11_TooFewTokensRejected ==
    (Done /\ MethodAndBoundariesPass /\ ends_with(request, CRLF)) =>
        TooFewTokensRejected

\* "GET HTTP/1.1\r\n": the version is taken as the target
C11_Witness ==
    /\ Done
    /\ request = GET \o <<SP>> \o HTTP11 \o CRLF
    /\ result = Err(MissingVersion)

\* the characters of the first line of the request: those before the first LF
FirstLineChars ==
    {request[i] : i \in {j \in 1 .. Len(request) :
                            \A k \in 1 .. j : request[k] # LF}}

\* the request has a first line, and it is empty or only whitespace
BlankFirstLine == request # <<>> /\ FirstLineChars \subseteq {SP, HT, CR}

\* C12: when the first line of the input holds no token (it is empty or only
\* whitespace, as in "\r\n" and "   \r\n"), parsing fails with MissingMethod.
C12_BlankFirstLineRejected ==
    (Done /\ BlankFirstLine) => result = Err(MissingMethod)

\* "   \r\n"
C12_Witness ==
    /\ Done
    /\ request = <<SP, SP, SP>> \o CRLF
    /\ result = Err(MissingMethod)

\* the checks after the trailing CRLF of the input, in the order of the code:
\* method classification, body boundaries, target, version, version value
FailureAfterMethod ==
    IF Tokens[1] \notin AcceptedTokens THEN UnsupportedMethod
    ELSE IF Tokens[1] \in BodyTokens /\ NoRoomForBody THEN MalformedRequest
    ELSE IF Len(Tokens) < 2 THEN MissingTarget
    ELSE IF Len(Tokens) < 3 THEN MissingVersion
    ELSE IF Tokens[3] # HTTP11 THEN UnsupportedVersion
    ELSE ""

\* the error of the earliest failing check in the order of the claim ("" when
\* no check fails)
FirstFailureStated ==
    IF Tokens = <<>> THEN MissingMethod ELSE FailureAfterMethod

\* the same with the trailing CRLF of the input checked right after the
\* presence of the method
FirstFailure ==
    IF Tokens = <<>> THEN MissingMethod
    ELSE IF ~ends_with(request, CRLF) THEN MalformedRequest
    ELSE FailureAfterMethod

\* C13 (as stated): a returned error is that of the earliest failing check in
\* the order method presence, method classification, body boundaries (body
\* methods), target presence, version presence, version value.
C13_Original ==
    (Done /\ result.kind = "Err") => result.msg = FirstFailureStated

\* C13 (amended): a returned error is that of the earliest failing check in
\* the order method presence, trailing CRLF of the input (MalformedRequest,
\* for every method), method classification, body boundaries (body methods),
\* target presence, version presence, version value; a request that parses
\* fails none of them.
C13_EarliestFailureWins ==
    /\ (Done /\ result.kind = "Err") => result.msg = FirstFailure
    /\ (Done /\ result.kind = "Ok") => FirstFailure = ""

\* "POST\r\n": no room for a body and no target, MalformedRequest wins
C13_Witness ==
    /\ Done
    /\ request = POST \o CRLF
    /\ result = Err(MalformedRequest)

\* the outcome the tokens of the request line alone decide, for a no-body
\* method
OutcomeOfTokens ==
    IF Len(Tokens) < 2 THEN Err(MissingTarget)
    ELSE IF Len(Tokens) < 3 THEN Err(MissingVersion)
    ELSE IF Tokens[3] # HTTP11 THEN Err(UnsupportedVersion)
    ELSE Ok(Tokens[1], Tokens[2], Tokens[3], None)

NoBodyRequest == Tokens # <<>> /\ Tokens[1] \in NoBodyTokens

\* C14 (as stated): MalformedRequest is returned only for body-bearing
\* methods; a request with a no-body method never fails with it and its
\* outcome depends only on the tokens of its request line.
C14_Original ==
    /\ (Done /\ result = Err(MalformedRequest)) =>
           (Tokens # <<>> /\ Tokens[1] \in BodyTokens)
    /\ (Done /\ NoBodyRequest) => result = OutcomeOfTokens

\* C14 (amended): the same for an input that ends with CRLF: there
\* MalformedRequest is returned only for body-bearing methods, and the outcome
\* of a request with a no-body method depends only on the tokens of its
\* request line.
C14_MalformedOnlyForBodyMethods ==
    /\ (Done /\ ends_with(request, CRLF) /\ result = Err(MalformedRequest)) =>
           (Tokens # <<>> /\ Tokens[1] \in BodyTokens)
    /\ (Done /\ ends_with(request, CRLF) /\ NoBodyRequest) =>
           result = OutcomeOfTokens

\* "GET / HTTP/1.1\r\n\r\n": adjacent first and last CRLF, and no boundary check
C14_Witness ==
    /\ Done
    /\ request = PlainRequest(GET, Root) \o CRLF
    /\ result = Ok(GET, Root, HTTP11, None)

NoBodyRequestWithTail ==
    /\ form.lead = <<>>
    /\ form.method \in NoBodyTokens
    /\ form.target # <<>>
    /\ form.version = HTTP11
    /\ form.extra = <<>>
    /\ form.eol \in {<<LF>>, CRLF}
    /\ ends_with(request, CRLF)

\* C16: for a no-body method the text after the request line does not change
\* the result: the request parses to method M, target t, version HTTP/1.1 and
\* no body, whatever lies between the request line and the closing CRLF.
C16_TailIgnoredForNoBodyMethods ==
    (Done /\ NoBodyRequestWithTail) =>
        result = Ok(form.method, form.target, HTTP11, None)

\* a request line ended by a bare LF, followed by a header line
C16_Witness ==
    /\ Done
    /\ NoBodyRequestWithTail
    /\ form.eol = <<LF>>
    /\ form.headers = <<CRLF>>
    /\ form.method = HEAD
    /\ result.kind = "Ok"
    /\ result.body = None

\* C17: an input whose first line holds a token and that does not end with
\* CRLF is rejected with "Bad request!" (MalformedRequest), whatever the
\* method token; hence every input that parses ends with CRLF.
C17_MissingTrailerRejected ==
    /\ (Done /\ Tokens # <<>> /\ ~ends_with(request, CRLF)) =>
           result = Err(MalformedRequest)
    /\ (Done /\ result.kind = "Ok") => ends_with(request, CRLF)

\* an unrecognized method in a request that ends with a bare LF
C17_Witness ==
    /\ Done
    /\ request = FOO \o <<SP>> \o Root \o <<SP>> \o HTTP11 \o <<LF>>
    /\ result = Err(MalformedRequest)

\* C18: when the body slice is taken its bounds satisfy
\* 2 <= body_start < body_end = len(request) - 2, so the slice lies within the
\* request; and the searches for the first and the last CRLF always find one,
\* because the request is known to end with CRLF.
C18_SliceWithinRequest ==
    /\ body # None =>
           /\ 2 <= body_start
           /\ body_start < body_end
           /\ body_end = Len(request) - 2
           /\ body[1] = SubSeq(request, body_start + 1, body_end)
    /\ pc = "body_start" => find(request, CRLF) # None
    /\ pc = "body_end" => rfind(request, CRLF) # None

\* the slice has just been taken
C18_Witness ==
    /\ pc = "uri"
    /\ body # None
    /\ method = PUT
    /\ body_start < body_end
    /\ body_end = Len(request) - 2

\* the request line is "M t HTTP/1.1" followed by further tokens, M is
\* accepted, the request ends with CRLF and, for a body method, the body
\* boundaries are valid
RequestLineWithExtraTokens ==
    /\ form.lead = <<>>
    /\ form.method \in AcceptedTokens
    /\ form.target # <<>>
    /\ form.version = HTTP11
    /\ form.extra # <<>>
    /\ ends_with(request, CRLF)
    /\ form.method \in BodyTokens => ValidBoundaries

\* C19: tokens after the third one of the request line are ignored: the
\* request parses with the method, target and version it has without them.
C19_ExtraTokensIgnored ==
    (Done /\ RequestLineWithExtraTokens) =>
        /\ result.kind = "Ok"
        /\ result.http_method = form.method
        /\ result.uri.inner = form.target
        /\ result.http_version = HTTP11

C19_Witness ==
    /\ Done
    /\ RequestLineWithExtraTokens
    /\ Len(Tokens) = 4
    /\ Tokens[4] = Extra
    /\ form.method = PATCH
    /\ result.kind = "Ok"

====
